---- MODULE Spec2Model ----
(***************************************************************************)
(* Model of get_serverless_function_latency_chart.ts: the joint fetch of   *)
(* the billed-duration metrics and the transaction latency series          *)
(* (Promise.all), and the merge of the two results into one chart.         *)
(***************************************************************************)
EXTENDS Integers, Sequences, FiniteSets, TLC

\* Largest number of buckets in a fetched time series.
MaxLen == 2

\* Milliseconds to microseconds factor used by the merge.
MsToUs == 1000

(***************************************************************************)
(* JavaScript values that can sit in a metric slot.  Finite doubles are    *)
(* modelled as integers; NaN and Infinity are numbers that are not finite. *)
(***************************************************************************)
Num(n) == [t |-> "number", v |-> n]
NaN == [t |-> "NaN", v |-> 0]
Infinity == [t |-> "Infinity", v |-> 0]
Null == [t |-> "null", v |-> 0]
Undefined == [t |-> "undefined", v |-> 0]

\* typeof value === 'number' && isFinite(value)
isFiniteNumber(value) == value.t = "number"

\* The JavaScript binary * with a finite, positive right operand k:
\* null coerces to 0, undefined to NaN, NaN and Infinity are absorbing.
Times(value, k) ==
  CASE value.t = "number" -> Num(value.v * k)
    [] value.t = "null" -> Num(0)
    [] value.t = "Infinity" -> Infinity
    [] OTHER -> NaN

\* The JavaScript ?? operator: the default replaces null and undefined only.
Nullish(value, default) ==
  IF value.t \in {"null", "undefined"} THEN default ELSE value

(***************************************************************************)
(* Inputs: what the two collaborators can return.                          *)
(***************************************************************************)
BilledYVals == {Num(2), Null, NaN, Infinity, Undefined}
BilledOverallVals == {Num(2), Num(0), Null, NaN}
LatencyYVals == {Num(500), Null}
OverallAvgVals == {Num(500), Null, Undefined, NaN, Infinity}

\* Time series over buckets 1..n: x is the bucket's timestamp, ascending.
SeriesData(yvals) ==
  UNION {{[i \in 1..n |-> [x |-> i, y |-> f[i]]] : f \in [1..n -> yvals]} :
         n \in 0..MaxLen}

\* The series fetchAndTransformMetrics builds for the key billedDurationAvg;
\* its data may be missing (dataDefined = FALSE).
BilledSeriesSet ==
  {[title |-> "Billed Duration", key |-> "billedDurationAvg",
    type |-> "linemark", overallValue |-> o, dataDefined |-> TRUE, data |-> d] :
     o \in BilledOverallVals, d \in SeriesData(BilledYVals)}
  \cup
  {[title |-> "Billed Duration", key |-> "billedDurationAvg",
    type |-> "linemark", overallValue |-> o, dataDefined |-> FALSE, data |-> <<>>] :
     o \in BilledOverallVals}

\* chartBase, with the series list filled in by fetchAndTransformMetrics:
\* one series for the one key of chartBase.series, or none.
chartBase(series) ==
  [title |-> "Lambda Duration", key |-> "avg_duration", type |-> "linemark",
   yUnit |-> "time", series |-> series]

BilledMetricsSet ==
  {chartBase(<<>>)} \cup {chartBase(<<s>>) : s \in BilledSeriesSet}

\* Results of getLatencyTimeseries.
LatencySet ==
  [overallAvgDuration : OverallAvgVals, latencyTimeseries : SeriesData(LatencyYVals)]

NoLatency == [overallAvgDuration |-> Undefined, latencyTimeseries |-> <<>>]

(***************************************************************************)
(* getServerlessLatencySeries, after its await of getLatencyTimeseries.    *)
(***************************************************************************)
getServerlessLatencySeriesNoDefault(transactionLatency) ==
  <<[title |-> "Transaction Duration", key |-> "transaction_duration",
     type |-> "linemark",
     overallValue |-> transactionLatency.overallAvgDuration,
     dataDefined |-> TRUE,
     data |-> transactionLatency.latencyTimeseries]>>

getServerlessLatencySeriesDropEmpty(transactionLatency) ==
  IF Len(transactionLatency.latencyTimeseries) = 0 THEN <<>>
  ELSE
  <<[title |-> "Transaction Duration", key |-> "transaction_duration",
     type |-> "linemark",
     overallValue |-> Nullish(transactionLatency.overallAvgDuration, Num(0)),
     dataDefined |-> TRUE,
     data |-> transactionLatency.latencyTimeseries]>>

getServerlessLatencySeries(transactionLatency) ==
  <<[title |-> "Transaction Duration", key |-> "transaction_duration",
     type |-> "linemark",
     overallValue |-> Nullish(transactionLatency.overallAvgDuration, Num(0)),
     dataDefined |-> TRUE,
     data |-> transactionLatency.latencyTimeseries]>>

(***************************************************************************)
(* The merge, lines 151-175.                                               *)
(***************************************************************************)
\* lodash isEmpty on a series' data: undefined and [] are empty.
isEmpty(s) == ~s.dataDefined \/ Len(s.data) = 0

convertPointNoCheck(p) == [x |-> p.x, y |-> Times(p.y, MsToUs)]

\* ({ x, y }) => ({ x, y: isFiniteNumber(y) ? y * 1000 : y })
convertPoint(p) ==
  [x |-> p.x, y |-> IF isFiniteNumber(p.y) THEN Times(p.y, MsToUs) ELSE p.y]

convertSeriesChecked(s) ==
  [s EXCEPT !.overallValue =
              IF isFiniteNumber(s.overallValue) THEN Times(s.overallValue, MsToUs)
              ELSE s.overallValue,
            !.dataDefined = TRUE,
            !.data = IF s.dataDefined
                     THEN [i \in 1..Len(s.data) |-> convertPoint(s.data[i])]
                     ELSE <<>>]

\* { ...billedDurationSeries, overallValue: overallValue * 1000, data: data || [] }
convertSeries(s) ==
  [s EXCEPT !.overallValue = Times(s.overallValue, MsToUs),
            !.dataDefined = TRUE,
            !.data = IF s.dataDefined
                     THEN [i \in 1..Len(s.data) |-> convertPoint(s.data[i])]
                     ELSE <<>>]

hasBilledNonEmpty(billedDurationMetrics) ==
  /\ Len(billedDurationMetrics.series) > 0
  /\ ~isEmpty(billedDurationMetrics.series[1])

\* const [billedDurationSeries] = ...series; if (billedDurationSeries)
hasBilled(billedDurationMetrics) == Len(billedDurationMetrics.series) > 0

includeTransactionAlways(serverlessDurationSeries) == TRUE

includeTransactionSomeValue(serverlessDurationSeries) ==
  \E i \in 1..Len(serverlessDurationSeries[1].data) :
     serverlessDurationSeries[1].data[i].y.t # "null"

\* !isEmpty(serverlessDurationSeries[0].data)
includeTransaction(serverlessDurationSeries) ==
  ~isEmpty(serverlessDurationSeries[1])

mergeSeriesTxnFirst(billedDurationMetrics, serverlessDurationSeries) ==
  (IF includeTransaction(serverlessDurationSeries)
   THEN serverlessDurationSeries ELSE <<>>)
  \o
  (IF hasBilled(billedDurationMetrics)
   THEN <<convertSeries(billedDurationMetrics.series[1])>> ELSE <<>>)

\* The local list `series` after the two conditional pushes.
mergeSeries(billedDurationMetrics, serverlessDurationSeries) ==
  (IF hasBilled(billedDurationMetrics)
   THEN <<convertSeries(billedDurationMetrics.series[1])>> ELSE <<>>)
  \o
  (IF includeTransaction(serverlessDurationSeries)
   THEN serverlessDurationSeries ELSE <<>>)

(***************************************************************************)
(* State.                                                                  *)
(***************************************************************************)
VARIABLES
  pc,          \* position of getServerlessFunctionLatencyChart
  bSt,         \* fetchAndTransformMetrics promise: idle, pending, ok, failed
  bRes,        \* billedDurationMetrics
  tSt,         \* getServerlessLatencySeries promise: idle, pending, ok, failed
  tLat,        \* transactionLatency, as returned by getLatencyTimeseries
  tRes,        \* serverlessDurationSeries
  all,         \* the Promise.all promise: pending, fulfilled, rejected
  allErr,      \* its rejection reason
  outcome,     \* of the whole call: none, chart, error
  chart,       \* the returned chart
  err,         \* the error the call rejected with
  order,       \* the fetches in the order they settled
  issued       \* number of outbound queries issued so far

vars == <<pc, bSt, bRes, tSt, tLat, tRes, all, allErr, outcome, chart, err,
          order, issued>>

NoErr == "none"
BilledErr == "billed_query_failed"
LatencyErr == "latency_query_failed"
TypeErr == "TypeError"

Init ==
  /\ pc = "init"
  /\ bSt = "idle"
  /\ bRes = chartBase(<<>>)
  /\ tSt = "idle"
  /\ tLat = NoLatency
  /\ tRes = <<>>
  /\ all = "pending"
  /\ allErr = NoErr
  /\ outcome = "none"
  /\ chart = chartBase(<<>>)
  /\ err = NoErr
  /\ order = <<>>
  /\ issued = 0

\* A mis-sequenced variant: await the billed fetch before calling the other.
CallBilledThenAwait ==
  /\ pc = "init"
  /\ bSt' = "pending"
  /\ issued' = issued + 1
  /\ pc' = "awaiting"
  /\ UNCHANGED <<bRes, tSt, tLat, tRes, all, allErr, outcome, chart, err, order>>

\* First element of the Promise.all array: fetchAndTransformMetrics(...) is
\* called and issues its query.
CallBilled ==
  /\ pc = "init"
  /\ bSt' = "pending"
  /\ issued' = issued + 1
  /\ pc' = "calledBilled"
  /\ UNCHANGED <<bRes, tSt, tLat, tRes, all, allErr, outcome, chart, err, order>>

\* Second element: getServerlessLatencySeries(...) is called and runs to its
\* await of getLatencyTimeseries; then the caller awaits Promise.all.
CallTxn ==
  /\ pc = "calledBilled"
  /\ tSt' = "pending"
  /\ issued' = issued + 1
  /\ pc' = "awaiting"
  /\ UNCHANGED <<bSt, bRes, tLat, tRes, all, allErr, outcome, chart, err, order>>

\* Callbacks run only while the caller is suspended or finished.
Suspended == pc \in {"awaiting", "done"}

\* Promise.all after one more input settles.
AllAfter(b, t, reason) ==
  IF all # "pending" THEN <<all, allErr>>
  ELSE IF reason # NoErr THEN <<"rejected", reason>>
  ELSE IF b = "ok" /\ t = "ok" THEN <<"fulfilled", NoErr>>
  ELSE <<"pending", NoErr>>

BilledOk ==
  /\ Suspended
  /\ bSt = "pending"
  /\ \E m \in BilledMetricsSet : bRes' = m
  /\ bSt' = "ok"
  /\ order' = Append(order, "billed")
  /\ all' = AllAfter("ok", tSt, NoErr)[1]
  /\ allErr' = AllAfter("ok", tSt, NoErr)[2]
  /\ UNCHANGED <<pc, tSt, tLat, tRes, outcome, chart, err, issued>>

BilledFail ==
  /\ Suspended
  /\ bSt = "pending"
  /\ bSt' = "failed"
  /\ order' = Append(order, "billed")
  /\ all' = AllAfter("failed", tSt, BilledErr)[1]
  /\ allErr' = AllAfter("failed", tSt, BilledErr)[2]
  /\ UNCHANGED <<pc, bRes, tSt, tLat, tRes, outcome, chart, err, issued>>

\* getLatencyTimeseries resolves; getServerlessLatencySeries resumes and
\* returns its one-element list.
TxnOk ==
  /\ Suspended
  /\ tSt = "pending"
  /\ \E l \in LatencySet :
       /\ tLat' = l
       /\ tRes' = getServerlessLatencySeries(l)
  /\ tSt' = "ok"
  /\ order' = Append(order, "txn")
  /\ all' = AllAfter(bSt, "ok", NoErr)[1]
  /\ allErr' = AllAfter(bSt, "ok", NoErr)[2]
  /\ UNCHANGED <<pc, bSt, bRes, outcome, chart, err, issued>>

TxnFail ==
  /\ Suspended
  /\ tSt = "pending"
  /\ tSt' = "failed"
  /\ order' = Append(order, "txn")
  /\ all' = AllAfter(bSt, "failed", LatencyErr)[1]
  /\ allErr' = AllAfter(bSt, "failed", LatencyErr)[2]
  /\ UNCHANGED <<pc, bSt, bRes, tLat, tRes, outcome, chart, err, issued>>

\* A variant that swallows the rejection and returns what it has.
RethrowPartial ==
  /\ pc = "awaiting"
  /\ all = "rejected"
  /\ pc' = "done"
  /\ outcome' = "chart"
  /\ chart' = [bRes EXCEPT !.series = <<>>]
  /\ UNCHANGED <<bSt, bRes, tSt, tLat, tRes, all, allErr, err, order, issued>>

\* The await of a rejected Promise.all throws: the call rejects.
Rethrow ==
  /\ pc = "awaiting"
  /\ all = "rejected"
  /\ pc' = "done"
  /\ outcome' = "error"
  /\ err' = allErr
  /\ UNCHANGED <<bSt, bRes, tSt, tLat, tRes, all, allErr, chart, order, issued>>

\* The continuation after a fulfilled Promise.all: lines 151-175 in one step.
\* Reading serverlessDurationSeries[0].data of an empty list throws.
Merge ==
  /\ pc = "awaiting"
  /\ all = "fulfilled"
  /\ pc' = "done"
  /\ IF Len(tRes) = 0
     THEN /\ outcome' = "error"
          /\ err' = TypeErr
          /\ UNCHANGED chart
     ELSE /\ outcome' = "chart"
          /\ chart' = [bRes EXCEPT !.series = mergeSeries(bRes, tRes)]
          /\ UNCHANGED err
  /\ UNCHANGED <<bSt, bRes, tSt, tLat, tRes, all, allErr, order, issued>>

Next ==
  \/ CallBilled
  \/ CallTxn
  \/ BilledOk
  \/ BilledFail
  \/ TxnOk
  \/ TxnFail
  \/ Rethrow
  \/ Merge

Spec == Init /\ [][Next]_vars

(***************************************************************************)
(* Properties.                                                             *)
(***************************************************************************)
Returned == outcome = "chart"
BilledKey == "billedDurationAvg"
TxnKey == "transaction_duration"
OutKeys == {chart.series[i].key : i \in 1..Len(chart.series)}

\* C1: when the billed fetch returned a series, the output billed data is a
\* pointwise map of the input data: same length, same x at every index, y
\* multiplied by 1000 when finite and unchanged otherwise.
C1_PointwiseConversion ==
  (Returned /\ Len(bRes.series) > 0 /\ bRes.series[1].dataDefined) =>
    LET src == bRes.series[1].data
        dst == chart.series[1].data
    IN /\ Len(dst) = Len(src)
       /\ \A i \in 1..Len(src) :
            /\ dst[i].x = src[i].x
            /\ dst[i].y = IF src[i].y.t = "number"
                          THEN [t |-> "number", v |-> src[i].y.v * 1000]
                          ELSE src[i].y

C1_Witness ==
  /\ Returned
  /\ Len(bRes.series) > 0
  /\ Len(bRes.series[1].data) = 2
  /\ bRes.series[1].data[1].y = Null
  /\ bRes.series[1].data[2].y = Num(2)
  /\ chart.series[1].data[1].y = Null
  /\ chart.series[1].data[2].y = Num(2000)

FailedAt(i) ==
  IF order[i] = "billed" THEN bSt = "failed" ELSE tSt = "failed"
FailedIdx == {i \in 1..Len(order) : FailedAt(i)}
FirstFailureErr ==
  LET i == CHOOSE k \in FailedIdx : \A j \in FailedIdx : k <= j
  IN IF order[i] = "billed" THEN BilledErr ELSE LatencyErr

\* C2: if either fetch fails, the call fails with that (first) error and
\* never returns a chart, whatever the other fetch does.
C2_AtomicFailure ==
  /\ Returned => (bSt = "ok" /\ tSt = "ok")
  /\ (pc = "done" /\ FailedIdx # {}) =>
       (outcome = "error" /\ err = FirstFailureErr)

C2_Witness ==
  /\ pc = "done"
  /\ bSt = "ok"
  /\ tSt = "failed"
  /\ outcome = "error"
  /\ err = LatencyErr

\* C3 (as stated): at most two series, none of them with empty data.
C3_NoEmptySeries ==
  Returned =>
    /\ Len(chart.series) <= 2
    /\ \A i \in 1..Len(chart.series) : Len(chart.series[i].data) > 0

\* C3 (amended): at most two series, and a series with empty data in the
\* list can only be the billed-duration series.
C3_OnlyBilledMayBeEmpty ==
  Returned =>
    /\ Len(chart.series) <= 2
    /\ \A i \in 1..Len(chart.series) :
         Len(chart.series[i].data) = 0 => chart.series[i].key = BilledKey

C3_Witness ==
  /\ Returned
  /\ Len(bRes.series) > 0
  /\ bRes.series[1].dataDefined
  /\ Len(bRes.series[1].data) = 0
  /\ Len(tLat.latencyTimeseries) = 0
  /\ Len(chart.series) = 1
  /\ Len(chart.series[1].data) = 0

\* C4: the transaction-duration series is in the output iff its data has at
\* least one point, and then it is the fetcher's series unmodified.
C4_TransactionInclusion ==
  Returned =>
    /\ (TxnKey \in OutKeys) <=> (Len(tLat.latencyTimeseries) >= 1)
    /\ \A i \in 1..Len(chart.series) :
         chart.series[i].key = TxnKey =>
           /\ chart.series[i] = tRes[1]
           /\ chart.series[i].data = tLat.latencyTimeseries

C4_Witness ==
  /\ Returned
  /\ Len(tLat.latencyTimeseries) = 2
  /\ \A i \in 1..2 : tLat.latencyTimeseries[i].y = Null
  /\ TxnKey \in OutKeys

\* C5 (as stated): overallValue is 0 when the upstream average is null,
\* undefined or not finite, the average otherwise; always a finite number.
C5_DefaultsNonFinite ==
  tSt = "ok" =>
    /\ tRes[1].overallValue =
         IF tLat.overallAvgDuration.t = "number"
         THEN tLat.overallAvgDuration ELSE Num(0)
    /\ tRes[1].overallValue.t = "number"

\* C5 (amended): overallValue is 0 when the upstream average is null or
\* undefined, the average itself otherwise (NaN and Infinity included);
\* it is never null or undefined.
C5_DefaultsNullish ==
  tSt = "ok" =>
    /\ tRes[1].overallValue =
         IF tLat.overallAvgDuration.t \in {"null", "undefined"}
         THEN Num(0) ELSE tLat.overallAvgDuration
    /\ tRes[1].overallValue.t \notin {"null", "undefined"}

C5_Witness ==
  /\ tSt = "ok"
  /\ tLat.overallAvgDuration = Undefined
  /\ tRes[1].overallValue = Num(0)

\* C6: when both series are in the output, billed duration is first and
\* transaction duration second, whichever fetch settled first.
C6_BilledFirst ==
  (Returned /\ BilledKey \in OutKeys /\ TxnKey \in OutKeys) =>
    /\ Len(chart.series) = 2
    /\ chart.series[1].key = BilledKey
    /\ chart.series[2].key = TxnKey

C6_Witness ==
  /\ Returned
  /\ order = <<"txn", "billed">>
  /\ Len(chart.series) = 2
  /\ chart.series[1].key = BilledKey

\* C7: both fetches are started before the call waits on either, the second
\* start does not wait for the first to complete, and the merge runs only
\* after both succeeded, in one step that issues no further query.
C7_ForkJoin ==
  /\ [](pc = "awaiting" => (bSt # "idle" /\ tSt # "idle"))
  /\ [][(tSt = "idle" /\ tSt' # "idle") => (bSt = "pending" /\ bSt' = "pending")]_vars
  /\ [][(outcome # "chart" /\ outcome' = "chart") =>
          /\ bSt = "ok" /\ tSt = "ok"
          /\ pc = "awaiting" /\ pc' = "done"
          /\ issued' = issued]_vars

C7_Witness ==
  /\ pc = "done"
  /\ Returned
  /\ issued = 2
  /\ order = <<"billed", "txn">>

\* C8: the billed-duration series is in the output iff the billed fetch
\* returned a series (empty data or not); with no billed series the output
\* is exactly the transaction series if it has data, and empty otherwise.
C8_BilledInclusion ==
  Returned =>
    /\ (BilledKey \in OutKeys) <=> (Len(bRes.series) >= 1)
    /\ Len(bRes.series) = 0 =>
         chart.series = IF Len(tLat.latencyTimeseries) >= 1 THEN tRes ELSE <<>>

C8_Witness ==
  /\ Returned
  /\ Len(bRes.series) = 0
  /\ Len(tLat.latencyTimeseries) >= 1
  /\ chart.series = tRes

\* C9: the output billed overallValue is the fetched one times 1000 with no
\* finite-number check, and the transaction overallValue is not scaled.
C9_OverallValueScaling ==
  Returned =>
    /\ Len(bRes.series) > 0 =>
         chart.series[1].overallValue =
           LET o == bRes.series[1].overallValue
           IN CASE o.t = "number" -> [t |-> "number", v |-> o.v * 1000]
                [] o.t = "null" -> [t |-> "number", v |-> 0]
                [] OTHER -> o
    /\ \A i \in 1..Len(chart.series) :
         chart.series[i].key = TxnKey =>
           chart.series[i].overallValue =
             IF tLat.overallAvgDuration.t \in {"null", "undefined"}
             THEN Num(0) ELSE tLat.overallAvgDuration

C9_Witness ==
  /\ Returned
  /\ Len(chart.series) = 2
  /\ bRes.series[1].overallValue = Null
  /\ chart.series[1].overallValue = Num(0)
  /\ tLat.overallAvgDuration = Num(500)
  /\ chart.series[2].overallValue = Num(500)

\* C10: when both fetches succeed the call returns a chart and the merge
\* never throws: the transaction series list always has exactly one element.
C10_MergeNeverFails ==
  /\ tSt = "ok" => Len(tRes) = 1
  /\ (pc = "done" /\ bSt = "ok" /\ tSt = "ok") => Returned
  /\ err # TypeErr

C10_Witness ==
  /\ pc = "done"
  /\ Returned
  /\ Len(bRes.series) = 1
  /\ ~bRes.series[1].dataDefined
  /\ Len(tLat.latencyTimeseries) = 0
  /\ Len(chart.series) = 1

====
